---------------------------- MODULE Spec2Model ----------------------------
(***************************************************************************)
(* Model of the casenotes-chatbot retrieval core.                          *)
(*                                                                         *)
(*   - chunk_text (backend/app/services/chunking.py): the loop is modelled *)
(*     one phase per action (forward fill, overlap selection), its inner   *)
(*     loops as recursive operators.                                       *)
(*   - find_similar_chunks (backend/app/services/vector_search.py): the    *)
(*     scoped similarity query over the note_chunks table.                 *)
(*   - chat (backend/app/api/routes/chat.py) with embed_query              *)
(*     (services/embedding.py), generate_answer (services/llm.py) and the  *)
(*     get_db dependency (core/database.py): one action per step between   *)
(*     two calls of a collaborator.                                        *)
(*   - _call_hf_api (services/embedding.py): one action per response of    *)
(*     the inference API, over every sequence of responses.                *)
(*   - embed_notes.py (backend/scripts): each run a process with its own   *)
(*     transaction, one action per INSERT, SELECT and batch, and a crash   *)
(*     that discards the open transaction.                                 *)
(*                                                                         *)
(* A text is a sequence of characters.  "." ends a sentence, " " is        *)
(* whitespace, "a" is any other character.  Sentence indices are 0-based   *)
(* as in the source; sentences[i] of the source is sentences[i + 1] here.  *)
(* The texts of the chat side (questions, answers, chunk texts, prompts)   *)
(* are sequences of tokens, and string concatenation is \o.                *)
(***************************************************************************)
EXTENDS Integers, Sequences, FiniteSets, TLC

(* ------------------------------ bounds --------------------------------- *)

MaxSents == 3
MaxSentLen == 2
MaxParam == 5
MaxDay == 4
NoteDay == 2
MaxChunksPerNote == 4
MaxRequests == 2
MinDocSents == 50
MaxDocSents == 60
MinDocSentLen == 49
MaxDocSentLen == 51

(* -------------------------- program constants -------------------------- *)

TOP_K == 6
EMBED_BATCH_SIZE == 16
EMBEDDING_DIM == 1024
MAX_HISTORY_TURNS == 10
SNIPPET_CHARS == 300
DEFAULT_MAX_CHARS == 1200
DEFAULT_MIN_OVERLAP_CHARS == 200
DEFAULT_MAX_OVERLAP_CHARS == 400
HF_ATTEMPTS == 3

VARIABLES
    text,               \* chunk_text argument: the raw note text
    max_chars,          \* chunk_text argument
    min_overlap_chars,  \* chunk_text argument
    max_overlap_chars,  \* chunk_text argument
    sentences,          \* local: sent_tokenize(text)
    chunks,             \* local: the list being built / returned
    chunk_start_idx,    \* local: first sentence of the chunk being built
    j,                  \* local: first sentence NOT in the chunk just built
    chunk_spans,        \* history: <<chunk_start_idx, j>> of every chunk appended
    pc,                 \* position in chunk_text: "start", "fill", "overlap", "done"
    case_notes,         \* table case_notes (seed_data.py)
    note_chunks,        \* table note_chunks (embed_notes.py)
    run_pc,             \* position in embed_notes.main: "idle", "chunking", "embedding"
    pending_notes,      \* embed_notes.main local: notes fetched as unchunked
    pending_chunks,     \* embed_notes.main local: chunk ids fetched as un-embedded
    query,              \* arguments of the last find_similar_chunks call
    results,            \* return value of the last find_similar_chunks call
    hf_request,         \* the last call of _call_hf_api: who called, with what
    session,            \* the chat_sessions row the chat requests name
    chat_messages,      \* table chat_messages of that session, in insertion order
    chat_pc,            \* position in chat: "idle", "embed", "search", "generate",
                        \* "commit" (get_db after the yield), "failed" (its except)
    body,               \* chat argument: the request body
    session_messages,   \* chat local: session.messages as loaded in step 1
    contents,           \* argument of the last call of _model.generate_content
    generator_calls,    \* calls of _model.generate_content in this request
    db_new,             \* db.add()ed objects of the request's AsyncSession
    failure,            \* the call that raised in this request, or "none"
    response,           \* what the client received for the last request
    requests,           \* chat requests received so far
    hf_call,            \* one call of _call_hf_api: argument, loop state, outcome
    runs                \* the embed_notes.py processes: position and locals of each

chunkVars == <<text, max_chars, min_overlap_chars, max_overlap_chars, sentences,
               chunks, chunk_start_idx, j, chunk_spans, pc>>

dbVars == <<case_notes, note_chunks, run_pc, pending_notes, pending_chunks,
            query, results, hf_request>>

chatVars == <<session, chat_messages, chat_pc, body, session_messages, contents,
              generator_calls, db_new, failure, response, requests>>

vars == <<chunkVars, dbVars, chatVars, hf_call, runs>>

(* ------------------------- strings and helpers ------------------------- *)

RECURSIVE Repeat(_, _)
Repeat(c, n) == IF n <= 0 THEN <<>> ELSE <<c>> \o Repeat(c, n - 1)

\* A sentence of n characters: n - 1 ordinary characters and the final ".".
Sentence(n) == Repeat("a", n - 1) \o <<".">>

\* The sentences of lens, separated by gap spaces, followed by pad spaces.
RECURSIVE Render(_, _, _)
Render(lens, gap, pad) ==
    IF lens = <<>> THEN Repeat(" ", pad)
    ELSE IF Len(lens) = 1 THEN Sentence(lens[1]) \o Repeat(" ", pad)
    ELSE Sentence(lens[1]) \o Repeat(" ", gap) \o Render(Tail(lens), gap, pad)

\* str.strip(): leading and trailing whitespace removed.
RECURSIVE LStrip(_)
LStrip(s) == IF s # <<>> /\ s[1] = " " THEN LStrip(Tail(s)) ELSE s

RECURSIVE RStrip(_)
RStrip(s) ==
    IF s # <<>> /\ s[Len(s)] = " " THEN RStrip(SubSeq(s, 1, Len(s) - 1)) ELSE s

Strip(s) == LStrip(RStrip(s))

\* " ".join(sents)
RECURSIVE Join(_)
Join(sents) ==
    IF sents = <<>> THEN <<>>
    ELSE IF Len(sents) = 1 THEN sents[1]
    ELSE sents[1] \o <<" ">> \o Join(Tail(sents))

\* sentences[a:b] of the source (0-based, b exclusive)
Slice(s, a, b) == SubSeq(s, a + 1, b)

(* --------------------------- sent_tokenize ----------------------------- *)

\* The Punkt segmenter as chunk_text uses it: a sentence ends at a "." that
\* is followed by whitespace or by the end of the text; the whitespace
\* between two sentences and after the last one belongs to no sentence.
\* The first character at or after position i that is not whitespace, or
\* Len(t) + 1.
SkipSpaces(t, i) ==
    LET rest == {k \in i..Len(t) : t[k] # " "}
    IN  IF rest = {} THEN Len(t) + 1 ELSE CHOOSE k \in rest : \A m \in rest : k <= m

\* The end of the sentence that starts at position i: the first "." followed
\* by whitespace or by the end of the text, or the end of the text.
SentEnd(t, i) ==
    LET ends == {k \in i..Len(t) : t[k] = "." /\ (k = Len(t) \/ t[k + 1] = " ")}
    IN  IF ends = {} THEN Len(t) ELSE CHOOSE k \in ends : \A m \in ends : k <= m

RECURSIVE TokenizeFrom(_, _, _)
TokenizeFrom(t, i, acc) ==
    LET b == SkipSpaces(t, i)
    IN  IF b > Len(t) THEN acc
        ELSE TokenizeFrom(t, SentEnd(t, b) + 1,
                          Append(acc, RStrip(SubSeq(t, b, SentEnd(t, b)))))

sent_tokenize(t) == TokenizeFrom(t, 1, <<>>)

(* ----------------------------- chunk_text ------------------------------ *)

\* FillEnd with the separator left out of the overflow test.
RECURSIVE FillEndNoSeparator(_, _, _, _, _)
FillEndNoSeparator(sents, jj, n_sents, char_count, maxc) ==
    IF jj >= Len(sents) THEN jj
    ELSE LET s == sents[jj + 1]
             separator == IF n_sents > 0 THEN 1 ELSE 0
         IN  IF char_count + Len(s) > maxc /\ n_sents > 0
             THEN jj
             ELSE FillEndNoSeparator(sents, jj + 1, n_sents + 1,
                                     char_count + separator + Len(s), maxc)

\* Step 1, the inner while loop: the value of j when the loop ends.
\* n_sents is len(chunk_sents), char_count the running character count.
RECURSIVE FillEnd(_, _, _, _, _)
FillEnd(sents, jj, n_sents, char_count, maxc) ==
    IF jj >= Len(sents) THEN jj
    ELSE LET s == sents[jj + 1]
             separator == IF n_sents > 0 THEN 1 ELSE 0
         IN  IF char_count + separator + Len(s) > maxc /\ n_sents > 0
             THEN jj
             ELSE FillEnd(sents, jj + 1, n_sents + 1, char_count + separator + Len(s), maxc)

\* Step 1 with its edge case: if no sentence entered the chunk, take the one
\* at the cursor.
ForwardFill(sents, start, maxc) ==
    LET e == FillEnd(sents, start, 0, 0, maxc)
    IN  IF e = start THEN start + 1 ELSE e

\* WalkBack without the cap check of line 148.
RECURSIVE WalkBackNoCap(_, _, _, _, _, _, _)
WalkBackNoCap(sents, start, jj, overlap_start, overlap_char_count, minov, maxov) ==
    IF ~(overlap_start > start) THEN overlap_start
    ELSE LET candidate_idx == overlap_start - 1
             candidate_text == sents[candidate_idx + 1]
             space == IF overlap_start < jj THEN 1 ELSE 0
             addition == Len(candidate_text) + space
         IN  IF overlap_char_count + addition >= minov THEN candidate_idx
             ELSE WalkBackNoCap(sents, start, jj, candidate_idx,
                                overlap_char_count + addition, minov, maxov)

\* WalkBack taking the last sentence only, whatever its length.
WalkBackOneSentence(sents, start, jj, overlap_start, overlap_char_count, minov, maxov) ==
    IF overlap_start > start THEN overlap_start - 1 ELSE overlap_start

\* Step 2, the backward walk: the value of overlap_start when the loop ends.
RECURSIVE WalkBack(_, _, _, _, _, _, _)
WalkBack(sents, start, jj, overlap_start, overlap_char_count, minov, maxov) ==
    IF ~(overlap_start > start) THEN overlap_start
    ELSE LET candidate_idx == overlap_start - 1
             candidate_text == sents[candidate_idx + 1]
             space == IF overlap_start < jj THEN 1 ELSE 0
             addition == Len(candidate_text) + space
         IN  IF overlap_char_count + addition > maxov THEN overlap_start
             ELSE IF overlap_char_count + addition >= minov THEN candidate_idx
             ELSE WalkBack(sents, start, jj, candidate_idx,
                           overlap_char_count + addition, minov, maxov)

\* ForceProgress that advances by two sentences.
ForceProgressSkip(overlap_start, start) ==
    IF overlap_start <= start THEN start + 2 ELSE overlap_start

\* ForceProgress with < for <=.
ForceProgressLax(overlap_start, start) ==
    IF overlap_start < start THEN start + 1 ELSE overlap_start

\* ForceProgress left out.
ForceProgressNone(overlap_start, start) == overlap_start

\* The safety step after the walk: forward progress by at least one sentence.
ForceProgress(overlap_start, start) ==
    IF overlap_start <= start THEN start + 1 ELSE overlap_start

\* Step 2 without any overlap: the next chunk starts where this one ended.
NextStartNoOverlap(sents, start, jj, minov, maxov) == jj

\* Step 2 as a whole: the start cursor of the next chunk.
NextStart(sents, start, jj, minov, maxov) ==
    ForceProgress(WalkBack(sents, start, jj, jj, 0, minov, maxov), start)

\* The no-sentence return without its emptiness test.
NoSentencesKeepsText(t) == <<Strip(t)>>

\* `return [text.strip()] if text.strip() else []`
NoSentencesResult(t) == IF Strip(t) # <<>> THEN <<Strip(t)>> ELSE <<>>

\* The short-text return re-joining the sentences.
ShortTextRejoined(t) == <<Join(sent_tokenize(t))>>

\* `return [text]`
ShortTextResult(t) == <<t>>

(* ------------------------------- inputs -------------------------------- *)

SentLens == UNION {[1..n -> 1..MaxSentLen] : n \in 0..MaxSents}

\* Note texts: sentences separated by one space, or by two spaces with a
\* trailing space (the spacing sent_tokenize drops).
Texts == {Render(lens, 1, 0) : lens \in SentLens}
            \cup {Render(lens, 2, 1) : lens \in SentLens}

Params == 0..MaxParam

ChunkInit ==
    /\ text \in Texts
    /\ max_chars \in Params
    /\ min_overlap_chars \in Params
    /\ max_overlap_chars \in Params
    /\ sentences = <<>>
    /\ chunks = <<>>
    /\ chunk_start_idx = 0
    /\ j = 0
    /\ chunk_spans = <<>>
    /\ pc = "start"

\* Documents of sentences of one length each: sentence k is n characters
\* long, ends with "." and carries a "b" whose place tells it from its
\* neighbours.
NumberedSentence(k, n) ==
    LET at == k % (n - 1)
    IN  Repeat("a", at) \o <<"b">> \o Repeat("a", n - 2 - at) \o <<".">>

Document(count, n) == Join([k \in 1..count |-> NumberedSentence(k, n)])

\* No sentence, one sentence, and MinDocSents to MaxDocSents sentences.
Documents ==
    {Document(count, n) : count \in {0, 1} \cup MinDocSents..MaxDocSents,
                          n \in MinDocSentLen..MaxDocSentLen}

(* ------------------------------- actions ------------------------------- *)

\* chunking.py 73-76: no sentence found.
ReturnNoSentences ==
    /\ pc = "start"
    /\ sent_tokenize(text) = <<>>
    /\ sentences' = sent_tokenize(text)
    /\ chunks' = NoSentencesResult(text)
    /\ pc' = "done"
    /\ UNCHANGED <<text, max_chars, min_overlap_chars, max_overlap_chars,
                   chunk_start_idx, j, chunk_spans>>
    /\ UNCHANGED <<dbVars, chatVars, hf_call, runs>>

\* chunking.py 73-80: the text fits in one chunk.
ReturnShortText ==
    /\ pc = "start"
    /\ sent_tokenize(text) # <<>>
    /\ Len(text) <= max_chars
    /\ sentences' = sent_tokenize(text)
    /\ chunks' = ShortTextResult(text)
    /\ chunk_spans' = <<<<0, Len(sent_tokenize(text))>>>>
    /\ pc' = "done"
    /\ UNCHANGED <<text, max_chars, min_overlap_chars, max_overlap_chars,
                   chunk_start_idx, j>>
    /\ UNCHANGED <<dbVars, chatVars, hf_call, runs>>

\* chunking.py 73-88: enter the main loop.
EnterLoop ==
    /\ pc = "start"
    /\ sent_tokenize(text) # <<>>
    /\ ~(Len(text) <= max_chars)
    /\ sentences' = sent_tokenize(text)
    /\ chunks' = <<>>
    /\ chunk_start_idx' = 0
    /\ pc' = IF 0 < Len(sent_tokenize(text)) THEN "fill" ELSE "done"
    /\ UNCHANGED <<text, max_chars, min_overlap_chars, max_overlap_chars,
                   j, chunk_spans>>
    /\ UNCHANGED <<dbVars, chatVars, hf_call, runs>>

\* chunking.py 94-125: build one chunk and append it.
BuildChunk ==
    /\ pc = "fill"
    /\ LET e == ForwardFill(sentences, chunk_start_idx, max_chars)
       IN  /\ j' = e
           /\ chunks' = Append(chunks, Join(Slice(sentences, chunk_start_idx, e)))
           /\ chunk_spans' = Append(chunk_spans, <<chunk_start_idx, e>>)
           /\ pc' = IF e >= Len(sentences) THEN "done" ELSE "overlap"
    /\ UNCHANGED <<text, max_chars, min_overlap_chars, max_overlap_chars,
                   sentences, chunk_start_idx>>
    /\ UNCHANGED <<dbVars, chatVars, hf_call, runs>>

\* chunking.py 133-172 and the loop test of line 88.
SelectOverlap ==
    /\ pc = "overlap"
    /\ chunk_start_idx' = NextStart(sentences, chunk_start_idx, j,
                                    min_overlap_chars, max_overlap_chars)
    /\ pc' = IF chunk_start_idx' < Len(sentences) THEN "fill" ELSE "done"
    /\ UNCHANGED <<text, max_chars, min_overlap_chars, max_overlap_chars,
                   sentences, chunks, j, chunk_spans>>
    /\ UNCHANGED <<dbVars, chatVars, hf_call, runs>>

(* ------------------------- database and search ------------------------- *)

\* A NULL embedding is the empty tuple, a vector v the tuple <<v>>.
NULL == <<>>

\* The value of `query` before the first call.  dim is the length of the
\* query vector, query_vector its direction.
NoQuery ==
    [case_id |-> "none", start_date |-> 0, end_date |-> 0, query_vector |-> 0,
     dim |-> 0]

Cases == {"case1", "case2"}
Days == 1..MaxDay

\* Times of day, in order.  A timestamp is <<day, time of day>>.
DayTimes == <<"00:00:00", "23:59:59", "23:59:59.5">>

TimeRank(tod) == CHOOSE i \in 1..Len(DayTimes) : DayTimes[i] = tod

\* t1 <= t2 on timestamps
TimeLE(t1, t2) ==
    \/ t1[1] < t2[1]
    \/ t1[1] = t2[1] /\ TimeRank(t1[2]) <= TimeRank(t2[2])

\* A DATE bound compared with a timestamp column: midnight of that day.
StartOfDay(d) == <<d, "00:00:00">>

\* `datetime.combine(end_date, time(23, 59, 59))`
EndOfDay(d) == <<d, "23:59:59">>

\* Query and document vectors, and the cosine distance `<=>` between them.
Vecs == {0, 1}
Distance(u, v) == IF u >= v THEN u - v ELSE v - u

\* embed_documents on the text of chunk idx of a note.
DocVector(note_id, idx) == idx % 2

\* n_chunks of a note stands for its text: the number of chunks chunk_text
\* returns for it, one for a short note, MaxChunksPerNote for a long one.
ChunkCounts == {1, MaxChunksPerNote}

\* note_type and caseworker_name as seed_data.py draws them (never NULL); a
\* column value v is the tuple <<v>>, as for embeddings.
NoteTypes == <<"in-person", "virtual", "phone">>
Caseworkers == <<"Robert Hayes", "Maria Santos">>

\* The notes seed_data.py may write for a case.
NoteOptions(c) ==
    {[id |-> <<c, tod, n>>, case_id |-> c, created_at |-> <<NoteDay, tod>>,
      note_type |-> <<NoteTypes[TimeRank(tod)]>>,
      caseworker_name |-> <<Caseworkers[IF n = 1 THEN 1 ELSE 2]>>,
      n_chunks |-> n] :
        tod \in {DayTimes[i] : i \in 1..Len(DayTimes)}, n \in ChunkCounts}

\* The text of chunk idx of a note, one token per component.
ChunkTextOf(note, idx) ==
    <<"chunk", note.id[1], note.id[2], ToString(note.id[3]), ToString(idx)>>

\* ChunkRows stamping the rows with the time of the run, not of the note.
ChunkRowsStampedNow(note, first_id) ==
    {[id |-> first_id + idx,
      note_id |-> note.id,
      case_id |-> note.case_id,
      chunk_index |-> idx,
      chunk_text |-> ChunkTextOf(note, idx),
      created_at |-> <<MaxDay, "00:00:00">>,
      caseworker_name |-> note.caseworker_name,
      note_type |-> note.note_type,
      embedding |-> NULL] : idx \in 0..(note.n_chunks - 1)}

SeededCases == {n.case_id : n \in case_notes}

\* The rows embed_notes.py inserts for a note; ids are fresh.
ChunkRows(note, first_id) ==
    {[id |-> first_id + idx,
      note_id |-> note.id,
      case_id |-> note.case_id,
      chunk_index |-> idx,
      chunk_text |-> ChunkTextOf(note, idx),
      created_at |-> note.created_at,
      caseworker_name |-> note.caseworker_name,
      note_type |-> note.note_type,
      embedding |-> NULL] : idx \in 0..(note.n_chunks - 1)}

Min(a, b) == IF a <= b THEN a ELSE b

\* The WHERE clause of find_similar_chunks without the case_id test.
InScopeAnyCase(r, q) ==
    /\ TimeLE(StartOfDay(q.start_date), r.created_at)
    /\ TimeLE(r.created_at, EndOfDay(q.end_date))
    /\ r.embedding # NULL

\* The WHERE clause of find_similar_chunks.
InScope(r, q) ==
    /\ r.case_id = q.case_id
    /\ TimeLE(StartOfDay(q.start_date), r.created_at)
    /\ TimeLE(r.created_at, EndOfDay(q.end_date))
    /\ r.embedding # NULL

\* ORDER BY embedding <=> query_vec, rows at the same distance by ascending
\* or by descending id.
RankLE(r1, r2, q, asc) ==
    \/ Distance(r1.embedding[1], q.query_vector) < Distance(r2.embedding[1], q.query_vector)
    \/ /\ Distance(r1.embedding[1], q.query_vector) = Distance(r2.embedding[1], q.query_vector)
       /\ IF asc THEN r1.id <= r2.id ELSE r1.id >= r2.id

RECURSIVE Ranked(_, _, _)
Ranked(rows, q, asc) ==
    IF rows = {} THEN <<>>
    ELSE LET first == CHOOSE r \in rows : \A o \in rows : RankLE(r, o, q, asc)
         IN  <<first>> \o Ranked(rows \ {first}, q, asc)

\* One result dict of find_similar_chunks.
ResultRow(r, q) ==
    [chunk_id |-> r.id,
     note_id |-> r.note_id,
     chunk_index |-> r.chunk_index,
     chunk_text |-> r.chunk_text,
     created_at |-> r.created_at,
     note_type |-> r.note_type,
     caseworker_name |-> r.caseworker_name,
     similarity |-> 1 - Distance(r.embedding[1], q.query_vector)]

\* The ivfflat index on note_chunks.embedding: a row is filed in the list
\* whose centre is nearest its embedding, one list per direction.
IvfList(v) == v

\* The rows an ivfflat index scan visits: with the default of one probe, those
\* of the list nearest the query vector.  Rows without embedding are not in
\* the index.
Probed(rows, q) ==
    {r \in rows : r.embedding # NULL /\ IvfList(r.embedding[1]) = IvfList(q.query_vector)}

\* The plans of the SELECT: a sequential scan that sorts the rows passing the
\* WHERE clause, or a scan of the ivfflat index whose rows are filtered after.
Plans == {"seqscan", "ivfflat"}

Visited(rows, q, plan) == IF plan = "ivfflat" THEN Probed(rows, q) ELSE rows

\* The SELECT of find_similar_chunks: filter, order, LIMIT :top_k.
SelectSimilar(rows, q, asc, plan) ==
    LET ranked == Ranked({r \in Visited(rows, q, plan) : InScope(r, q)}, q, asc)
        top == SubSeq(ranked, 1, Min(TOP_K, Len(ranked)))
    IN  [i \in 1..Len(top) |-> ResultRow(top[i], q)]

\* `embedding <=> (:query_vec)::vector` raises "different vector dimensions"
\* when it is evaluated on vectors of different lengths: for a row that
\* passed the WHERE clause, or for the list centres of the index scan.
DimensionError(rows, q, plan) ==
    /\ q.dim # EMBEDDING_DIM
    /\ \/ plan = "ivfflat"
       \/ \E r \in rows : InScope(r, q)

(* -------------------------- embedding service -------------------------- *)

BGE_QUERY_PREFIX == "Represent this sentence for searching relevant passages: "

\* The value of `hf_request` before the first call.  input is the argument
\* of the caller, texts the strings _call_hf_api posts.
NoHfRequest == [caller |-> "none", origin |-> "none", input |-> {}, texts |-> {}]

\* embed_documents adding the query prefix to every text.
embed_documents_prefixed(texts) == {<<BGE_QUERY_PREFIX>> \o t : t \in texts}

\* embed_documents: the texts it passes to _call_hf_api.
embed_documents(texts) == texts

\* embed_query: the texts it passes to _call_hf_api.
embed_query(q) == {<<BGE_QUERY_PREFIX>> \o q}

\* The lengths of the vectors the service may return: that of the configured
\* model, or another one.
QueryDims == {EMBEDDING_DIM, EMBEDDING_DIM - 1}

DbInit ==
    /\ case_notes = {}
    /\ note_chunks = {}
    /\ run_pc = "idle"
    /\ pending_notes = {}
    /\ pending_chunks = {}
    /\ query = NoQuery
    /\ results = <<>>
    /\ hf_request = NoHfRequest

\* seed_data.py main, one case: its notes are committed together, each later
\* than the one before, and a case that already exists is skipped.
SeedCase(c) ==
    /\ c \notin SeededCases
    /\ \E n1, n2 \in NoteOptions(c) :
           /\ n1.created_at # n2.created_at
           /\ case_notes' = case_notes \cup {n1, n2}
    /\ UNCHANGED <<note_chunks, run_pc, pending_notes, pending_chunks, query, results, hf_request>>
    /\ UNCHANGED <<chunkVars, chatVars, hf_call, runs>>

\* The pending notes without the test for chunk rows.
PendingNotesAll(notes, rows) == notes

\* The pending notes taken as those with a chunk still to embed.
PendingNotesUnembedded(notes, rows) ==
    {n \in notes : \/ ~(\E r \in rows : r.note_id = n.id)
                   \/ \E r \in rows : r.note_id = n.id /\ r.embedding = NULL}

\* `FROM case_notes cn LEFT JOIN note_chunks nc ... WHERE nc.id IS NULL`
PendingNotes(notes, rows) ==
    {n \in notes : ~(\E r \in rows : r.note_id = n.id)}

\* embed_notes.py 74-87: fetch the notes that have no chunk row.
StartRun ==
    /\ run_pc = "idle"
    /\ pending_notes' = PendingNotes(case_notes, note_chunks)
    /\ run_pc' = "chunking"
    /\ UNCHANGED <<case_notes, note_chunks, pending_chunks, query, results, hf_request>>
    /\ UNCHANGED <<chunkVars, chatVars, hf_call, runs>>

\* embed_notes.py 97-127: chunk the next pending note (ORDER BY created_at),
\* insert its rows and commit.
ChunkNextNote ==
    /\ run_pc = "chunking"
    /\ \E note \in pending_notes :
           /\ \A o \in pending_notes : TimeLE(note.created_at, o.created_at)
           /\ note_chunks' =
                  note_chunks \cup ChunkRows(note, Cardinality(note_chunks) + 1)
           /\ pending_notes' = pending_notes \ {note}
    /\ UNCHANGED <<case_notes, run_pc, pending_chunks, query, results, hf_request>>
    /\ UNCHANGED <<chunkVars, chatVars, hf_call, runs>>

\* embed_notes.py 132-144: fetch the chunks whose embedding is NULL; return
\* if there is none.
SelectPendingChunks ==
    /\ run_pc = "chunking"
    /\ pending_notes = {}
    /\ pending_chunks' = {r.id : r \in {x \in note_chunks : x.embedding = NULL}}
    /\ run_pc' = IF pending_chunks' = {} THEN "idle" ELSE "embedding"
    /\ UNCHANGED <<case_notes, note_chunks, pending_notes, query, results, hf_request>>
    /\ UNCHANGED <<chunkVars, chatVars, hf_call, runs>>

\* r1 comes before r2 in `ORDER BY created_at, chunk_index`; rows equal in
\* both come by ascending or by descending id.
FetchedBefore(r1, r2, asc) ==
    \/ r1.created_at # r2.created_at /\ TimeLE(r1.created_at, r2.created_at)
    \/ r1.created_at = r2.created_at /\ r1.chunk_index < r2.chunk_index
    \/ /\ r1.created_at = r2.created_at
       /\ r1.chunk_index = r2.chunk_index
       /\ IF asc THEN r1.id < r2.id ELSE r1.id > r2.id

\* pending_chunks[batch_start : batch_start + EMBED_BATCH_SIZE]: the first
\* EMBED_BATCH_SIZE of the chunks still to embed.
NextBatch(rows, asc) ==
    {r \in rows :
        Cardinality({o \in rows : FetchedBefore(o, r, asc)}) < EMBED_BATCH_SIZE}

\* embed_notes.py 152-177: embed the next batch, update its rows and commit.
EmbedBatch ==
    /\ run_pc = "embedding"
    /\ \E asc \in BOOLEAN :
           LET rows == NextBatch({x \in note_chunks : x.id \in pending_chunks}, asc)
               batch == {r.id : r \in rows}
               chunk_texts == {r.chunk_text : r \in rows}
           IN  /\ hf_request' = [caller |-> "embed_documents",
                                 origin |-> "embed_notes",
                                 input |-> chunk_texts,
                                 texts |-> embed_documents(chunk_texts)]
               /\ note_chunks' =
                      {IF r.id \in batch
                       THEN [r EXCEPT !.embedding = <<DocVector(r.note_id, r.chunk_index)>>]
                       ELSE r : r \in note_chunks}
               /\ pending_chunks' = pending_chunks \ batch
               /\ run_pc' = IF pending_chunks' = {} THEN "idle" ELSE "embedding"
    /\ UNCHANGED <<case_notes, pending_notes, query, results>>
    /\ UNCHANGED <<chunkVars, chatVars, hf_call, runs>>

\* vector_search.py 34-117, called by chat for a session of case c with the
\* window start_date..end_date (sessions.py: end_date after start_date).
Search(c, start_date, end_date, query_vector) ==
    /\ query = NoQuery
    /\ c \in SeededCases
    /\ start_date < end_date
    /\ query' = [case_id |-> c, start_date |-> start_date, end_date |-> end_date,
                 query_vector |-> query_vector, dim |-> EMBEDDING_DIM]
    /\ \E asc \in BOOLEAN, plan \in Plans :
           results' = SelectSimilar(note_chunks, query', asc, plan)
    /\ UNCHANGED <<case_notes, note_chunks, run_pc, pending_notes, pending_chunks,
                   hf_request>>
    /\ UNCHANGED <<chunkVars, chatVars, hf_call, runs>>

\* The chat request that made the call ends; the next one may start.
Respond ==
    /\ query # NoQuery
    /\ query' = NoQuery
    /\ results' = <<>>
    /\ UNCHANGED <<case_notes, note_chunks, run_pc, pending_notes, pending_chunks,
                   hf_request>>
    /\ UNCHANGED <<chunkVars, chatVars, hf_call, runs>>

SearchNext ==
    \/ \E c \in Cases : SeedCase(c)
    \/ StartRun
    \/ ChunkNextNote
    \/ SelectPendingChunks
    \/ EmbedBatch
    \/ \E c \in Cases, s \in Days, e \in Days, v \in Vecs : Search(c, s, e, v)
    \/ Respond

\* No call of chunk_text is in progress.
ChunkIdle ==
    /\ text = <<>>
    /\ max_chars = 0
    /\ min_overlap_chars = 0
    /\ max_overlap_chars = 0
    /\ sentences = <<>>
    /\ chunks = <<>>
    /\ chunk_start_idx = 0
    /\ j = 0
    /\ chunk_spans = <<>>
    /\ pc = "done"

(* ------------------------ chat and generate_answer --------------------- *)

\* The questions users type and the text the generator returns.
Questions == {<<"q1">>, <<"q2">>}
Answer == <<"a1">>

NoBody == [session_id |-> "none", message |-> <<>>]
NoSession == [id |-> "none", case_id |-> "none", start_date |-> 0, end_date |-> 0]
NoResponse == [status |-> "none", answer |-> <<>>, sources |-> <<>>]

\* The db.add() calls of a request that adds the user message only.
NewMessagesUserOnly(message, answer_text) ==
    <<[role |-> "user", content |-> message]>>

\* chat.py 131-142: the two ChatMessage objects of a request.
NewMessages(message, answer_text) ==
    <<[role |-> "user", content |-> message],
      [role |-> "assistant", content |-> answer_text]>>

\* created_at DEFAULT NOW(): the time of the inserting transaction, the same
\* for all rows it inserts and later than any earlier transaction's.
NextStamp(msgs) == IF msgs = <<>> THEN 1 ELSE msgs[Len(msgs)].created_at + 1

Inserted(new, now) ==
    [i \in 1..Len(new) |->
        [role |-> new[i].role, content |-> new[i].content, created_at |-> now]]

\* Row a comes before row b in `order_by="ChatMessage.created_at"`; rows of
\* one transaction come in insertion order or in the reverse of it.
LoadedBefore(msgs, a, b, rev) ==
    \/ msgs[a].created_at < msgs[b].created_at
    \/ /\ msgs[a].created_at = msgs[b].created_at
       /\ IF rev THEN a > b ELSE a < b

\* selectinload(ChatSession.messages)
LoadMessages(msgs, rev) ==
    [i \in 1..Len(msgs) |->
        msgs[CHOOSE p \in 1..Len(msgs) :
                 Cardinality({o \in 1..Len(msgs) : LoadedBefore(msgs, o, p, rev)}) = i - 1]]

\* chat.py 118-121
PriorMessages(loaded) ==
    [i \in 1..Len(loaded) |-> [role |-> loaded[i].role, content |-> loaded[i].content]]

\* The history slice taken from the front of the list.
TruncateHistoryOldest(prior) ==
    SubSeq(prior, 1, Min(MAX_HISTORY_TURNS * 2, Len(prior)))

\* `prior_messages[-(MAX_HISTORY_TURNS * 2):]`
TruncateHistory(prior) ==
    SubSeq(prior, Len(prior) - Min(MAX_HISTORY_TURNS * 2, Len(prior)) + 1, Len(prior))

\* llm.py 142-145
History(prior) ==
    LET history_messages == TruncateHistory(prior)
    IN  [i \in 1..Len(history_messages) |->
            [role |-> IF history_messages[i].role = "assistant" THEN "model" ELSE "user",
             parts |-> <<history_messages[i].content>>]]

\* `value or default` on a nullable column
OrDefault(a, d) == IF a # NULL /\ a[1] # "" THEN a[1] ELSE d

\* ts.strftime("%Y-%m-%d")
DateStr(ts) == ToString(ts[1])

\* A label that numbers the excerpts of a note.
CitationLabelNumbered(note) ==
    <<"[", DateStr(note.created_at), ", ", OrDefault(note.note_type, "unknown"), ", ",
      OrDefault(note.caseworker_name, "unknown caseworker"), " #",
      ToString(note.chunk_index), "]">>

\* llm.py 120-125: the label of one excerpt.
CitationLabel(note) ==
    <<"[", DateStr(note.created_at), ", ", OrDefault(note.note_type, "unknown"), ", ",
      OrDefault(note.caseworker_name, "unknown caseworker"), "]">>

ContextLine(note) == CitationLabel(note) \o <<":\n">> \o note.chunk_text \o <<"\n">>

\* "\n".join(context_lines)
RECURSIVE JoinLines(_)
JoinLines(lines) ==
    IF lines = <<>> THEN <<>>
    ELSE IF Len(lines) = 1 THEN lines[1]
    ELSE lines[1] \o <<"\n">> \o JoinLines(Tail(lines))

EXCERPTS_HEADER == "**Relevant case note excerpts:**\n"
NO_EXCERPTS_MARKER ==
    "No case note excerpts were found for this question within the selected date window."
QUESTION_LABEL == "\n\n**Question:** "

\* The context block without its else branch.
ContextBlockNoMarker(retrieved_notes) ==
    IF retrieved_notes # <<>>
    THEN JoinLines(<<<<EXCERPTS_HEADER>>>>
                       \o [i \in 1..Len(retrieved_notes) |-> ContextLine(retrieved_notes[i])])
    ELSE <<>>

\* llm.py 113-132
ContextBlock(retrieved_notes) ==
    IF retrieved_notes # <<>>
    THEN JoinLines(<<<<EXCERPTS_HEADER>>>>
                       \o [i \in 1..Len(retrieved_notes) |-> ContextLine(retrieved_notes[i])])
    ELSE <<NO_EXCERPTS_MARKER>>

\* The user turn with the question before the context block.
FullUserMessageQuestionFirst(context_block, user_question) ==
    user_question \o <<QUESTION_LABEL>> \o context_block

\* llm.py 135: f"{context_block}\n\n**Question:** {user_question}"
FullUserMessage(context_block, user_question) ==
    context_block \o <<QUESTION_LABEL>> \o user_question

\* generate_answer keeping the context block of the call before it.
GenerateContentsCached(user_question, retrieved_notes, prior) ==
    LET last == IF contents = <<>> THEN <<>> ELSE contents[Len(contents)].parts[1]
        cached == SubSeq(last, 1, Len(last) - 1 - Len(user_question))
    IN  History(prior)
            \o <<[role |-> "user",
                  parts |-> <<FullUserMessage(IF contents = <<>>
                                              THEN ContextBlock(retrieved_notes)
                                              ELSE cached,
                                              user_question)>>]>>

\* llm.py 150-152: the argument of generate_content.
GenerateContents(user_question, retrieved_notes, prior) ==
    History(prior)
        \o <<[role |-> "user",
              parts |-> <<FullUserMessage(ContextBlock(retrieved_notes), user_question)>>]>>

\* chunk["chunk_text"][:300] + ("..." if longer)
Snippet(t) ==
    IF Len(t) > SNIPPET_CHARS THEN SubSeq(t, 1, SNIPPET_CHARS) \o <<"...">> ELSE t

\* chunk["created_at"].isoformat()
IsoFormat(ts) == <<ToString(ts[1]), "T", ts[2]>>

\* chat.py 149-161; round(similarity, 4) leaves a whole number as it is.
Sources(similar_notes) ==
    [i \in 1..Len(similar_notes) |->
        [id |-> similar_notes[i].chunk_id,
         note_id |-> similar_notes[i].note_id,
         chunk_index |-> similar_notes[i].chunk_index,
         created_at |-> IsoFormat(similar_notes[i].created_at),
         note_type |-> similar_notes[i].note_type,
         caseworker_name |-> similar_notes[i].caseworker_name,
         snippet |-> Snippet(similar_notes[i].chunk_text),
         similarity |-> similar_notes[i].similarity]]

\* A failed generator call followed by another call.
AfterGenerateRetry(ok) == IF ok THEN "commit" ELSE "generate"

\* chat.py 124-128, llm.py 150-155: generate_content is called once; its
\* exception leaves chat and reaches get_db.
AfterGenerate(ok) == IF ok THEN "commit" ELSE "failed"

\* The outcomes of _call_hf_api: the vectors, an HTTP error, a body that is
\* not JSON, or the model still loading after the last attempt.
HfOutcomes == {"ok", "http_error", "decode_error", "still_loading"}

(* ---- the database the chat requests run against ---- *)

ChatNote(name, c, day, tod, type, cw, n) ==
    [id |-> <<c, name, n>>, case_id |-> c, created_at |-> <<day, tod>>,
     note_type |-> type, caseworker_name |-> cw, n_chunks |-> n]

\* Two notes of case1 written on the same day by the same caseworker, a note
\* of case1 without type and with an empty caseworker name, and a note of
\* case2 that embed_notes has not processed yet.
NoteA == ChatNote("A", "case1", NoteDay, "00:00:00", <<"in-person">>, <<"Robert Hayes">>, 2)
NoteB == ChatNote("B", "case1", NoteDay, "23:59:59", <<"in-person">>, <<"Robert Hayes">>, 1)
NoteC == ChatNote("C", "case1", NoteDay + 1, "00:00:00", NULL, <<"">>, 1)
NoteD == ChatNote("D", "case2", NoteDay, "00:00:00", <<"phone">>, <<"Maria Santos">>, 1)

ChatNotes == {NoteA, NoteB, NoteC, NoteD}

\* The rows of a completed embed_notes run over NoteA, NoteB and NoteC.
ChatChunks ==
    {[r EXCEPT !.embedding = <<DocVector(r.note_id, r.chunk_index)>>] :
        r \in ChunkRows(NoteA, 1) \cup ChunkRows(NoteB, 3) \cup ChunkRows(NoteC, 4)}

ChatSessions ==
    {[id |-> "s1", case_id |-> "case1", start_date |-> 1, end_date |-> MaxDay],
     [id |-> "s1", case_id |-> "case1", start_date |-> 1, end_date |-> NoteDay],
     [id |-> "s1", case_id |-> "case2", start_date |-> 1, end_date |-> MaxDay]}

\* The stored messages after k answered requests.
RECURSIVE StoredHistory(_)
StoredHistory(k) ==
    IF k = 0 THEN <<>>
    ELSE StoredHistory(k - 1)
             \o Inserted(NewMessages(IF k % 2 = 1 THEN <<"q1">> ELSE <<"q2">>, Answer), k)

InitialTurns == {0, MAX_HISTORY_TURNS - 1, MAX_HISTORY_TURNS}

ChatDbInit ==
    /\ case_notes = ChatNotes
    /\ note_chunks = ChatChunks
    /\ run_pc = "idle"
    /\ pending_notes = {}
    /\ pending_chunks = {}
    /\ query = NoQuery
    /\ results = <<>>
    /\ hf_request = NoHfRequest

ChatInit ==
    /\ session \in ChatSessions
    /\ chat_messages \in {StoredHistory(k) : k \in InitialTurns}
    /\ chat_pc = "idle"
    /\ body = NoBody
    /\ session_messages = <<>>
    /\ contents = <<>>
    /\ generator_calls = 0
    /\ db_new = <<>>
    /\ failure = "none"
    /\ response = NoResponse
    /\ requests = 0

\* No chat session exists and no request is in progress.
ChatIdle ==
    /\ session = NoSession
    /\ chat_messages = <<>>
    /\ chat_pc = "idle"
    /\ body = NoBody
    /\ session_messages = <<>>
    /\ contents = <<>>
    /\ generator_calls = 0
    /\ db_new = <<>>
    /\ failure = "none"
    /\ response = NoResponse
    /\ requests = 0

(* ---- the steps of one POST /api/chat ---- *)

\* chat.py 89-96 with get_db 136-138: the session does not exist, 404.
ChatSessionNotFound(message) ==
    /\ chat_pc = "idle"
    /\ requests < MaxRequests
    /\ requests' = requests + 1
    /\ body' = [session_id |-> "s0", message |-> message]
    /\ session_messages' = <<>>
    /\ generator_calls' = 0
    /\ failure' = "none"
    /\ response' = [status |-> "404", answer |-> <<>>, sources |-> <<>>]
    /\ query' = NoQuery
    /\ results' = <<>>
    /\ UNCHANGED <<session, chat_messages, chat_pc, db_new, contents>>
    /\ UNCHANGED <<case_notes, note_chunks, run_pc, pending_notes, pending_chunks,
                   hf_request>>
    /\ UNCHANGED <<chunkVars, hf_call, runs>>

\* chat.py 89-96: load the session and its stored messages.
ChatLoadSession(message, rev) ==
    /\ chat_pc = "idle"
    /\ requests < MaxRequests
    /\ requests' = requests + 1
    /\ body' = [session_id |-> session.id, message |-> message]
    /\ session_messages' = LoadMessages(chat_messages, rev)
    /\ generator_calls' = 0
    /\ failure' = "none"
    /\ response' = NoResponse
    /\ query' = NoQuery
    /\ results' = <<>>
    /\ chat_pc' = "embed"
    /\ UNCHANGED <<session, chat_messages, db_new, contents>>
    /\ UNCHANGED <<case_notes, note_chunks, run_pc, pending_notes, pending_chunks,
                   hf_request>>
    /\ UNCHANGED <<chunkVars, hf_call, runs>>

\* chat.py 101: embedding.embed_query(body.message).
ChatEmbedQuery ==
    /\ chat_pc = "embed"
    /\ hf_request' = [caller |-> "embed_query",
                      origin |-> "chat",
                      input |-> {body.message},
                      texts |-> embed_query(body.message)]
    /\ \E outcome \in HfOutcomes :
           IF outcome = "ok"
           THEN /\ \E v \in Vecs, d \in QueryDims :
                       query' = [case_id |-> session.case_id,
                                 start_date |-> session.start_date,
                                 end_date |-> session.end_date,
                                 query_vector |-> v, dim |-> d]
                /\ chat_pc' = "search"
                /\ UNCHANGED failure
           ELSE /\ chat_pc' = "failed"
                /\ failure' = "embedding"
                /\ UNCHANGED query
    /\ UNCHANGED <<session, chat_messages, body, session_messages, contents,
                   generator_calls, db_new, response, requests>>
    /\ UNCHANGED <<case_notes, note_chunks, run_pc, pending_notes, pending_chunks,
                   results>>
    /\ UNCHANGED <<chunkVars, hf_call, runs>>

\* chat.py 107-113: vector_search.find_similar_chunks.
ChatFindSimilar ==
    /\ chat_pc = "search"
    /\ \E asc \in BOOLEAN, plan \in Plans :
           IF DimensionError(note_chunks, query, plan)
           THEN /\ chat_pc' = "failed"
                /\ failure' = "search"
                /\ UNCHANGED results
           ELSE /\ results' = SelectSimilar(note_chunks, query, asc, plan)
                /\ chat_pc' = "generate"
                /\ UNCHANGED failure
    /\ UNCHANGED <<session, chat_messages, body, session_messages, contents,
                   generator_calls, db_new, response, requests>>
    /\ UNCHANGED <<case_notes, note_chunks, run_pc, pending_notes, pending_chunks,
                   query, hf_request>>
    /\ UNCHANGED <<chunkVars, hf_call, runs>>

\* chat.py 118-163: build the history, call generate_answer, add the two
\* messages and build the response.
ChatGenerate ==
    /\ chat_pc = "generate"
    /\ contents' = GenerateContents(body.message, results, PriorMessages(session_messages))
    /\ generator_calls' = generator_calls + 1
    /\ \E ok \in BOOLEAN :
           /\ chat_pc' = AfterGenerate(ok)
           /\ IF ok
              THEN /\ db_new' = NewMessages(body.message, Answer)
                   /\ response' = [status |-> "ok", answer |-> Answer,
                                   sources |-> Sources(results)]
                   /\ UNCHANGED failure
              ELSE /\ failure' = "generator"
                   /\ UNCHANGED <<db_new, response>>
    /\ UNCHANGED <<session, chat_messages, body, session_messages, requests>>
    /\ UNCHANGED dbVars
    /\ UNCHANGED <<chunkVars, hf_call, runs>>

\* A commit that keeps only the rows the prompt history would keep.
CommitMessagesTruncated(msgs, new) ==
    TruncateHistory(msgs \o Inserted(new, NextStamp(msgs)))

\* session.commit(): the pending objects become rows, INSERT only.
CommitMessages(msgs, new) == msgs \o Inserted(new, NextStamp(msgs))

\* database.py 135: the route returned, the session commits.
GetDbCommit ==
    /\ chat_pc = "commit"
    /\ chat_messages' = CommitMessages(chat_messages, db_new)
    /\ db_new' = <<>>
    /\ chat_pc' = "idle"
    /\ UNCHANGED <<session, body, session_messages, contents, generator_calls,
                   failure, response, requests>>
    /\ UNCHANGED dbVars
    /\ UNCHANGED <<chunkVars, hf_call, runs>>

\* database.py 136-138: the route raised, the session rolls back and the
\* exception goes on to the client.
GetDbRollback ==
    /\ chat_pc = "failed"
    /\ db_new' = <<>>
    /\ response' = [status |-> "error", answer |-> <<>>, sources |-> <<>>]
    /\ chat_pc' = "idle"
    /\ UNCHANGED <<session, chat_messages, body, session_messages, contents,
                   generator_calls, failure, requests>>
    /\ UNCHANGED dbVars
    /\ UNCHANGED <<chunkVars, hf_call, runs>>

ChatNext ==
    \/ \E m \in Questions : ChatSessionNotFound(m)
    \/ \E m \in Questions, rev \in BOOLEAN : ChatLoadSession(m, rev)
    \/ ChatEmbedQuery
    \/ ChatFindSimilar
    \/ ChatGenerate
    \/ GetDbCommit
    \/ GetDbRollback
    \/ StartRun
    \/ ChunkNextNote
    \/ SelectPendingChunks
    \/ EmbedBatch

(* ----------------------- embed_notes.py processes ---------------------- *)

\* The processes that run embed_notes.py.  Each has its own connection: the
\* rows it inserted and has not committed (tx) are lost when it dies and are
\* not seen by the others.
RunIds == {1, 2}

\* pc: "idle", "chunking" or "embedding"; cur: the note being chunked, <<>>
\* between two notes; inserted: the rows inserted for it so far; outcome of
\* the last run; rerun: a run had completed when this one started;
\* rolled_back and last_crash: what the last crash discarded, and in which
\* pass it happened.
RunsIdle ==
    runs = [p \in RunIds |->
                [pc |-> "idle", pending_notes |-> {}, cur |-> <<>>, inserted |-> 0,
                 tx |-> {}, pending_chunks |-> {}, outcome |-> "none",
                 rerun |-> FALSE, done_before |-> FALSE, rolled_back |-> 0,
                 last_crash |-> "none"]]

\* str(uuid.uuid4()): an id no other row has.  It is told apart by the
\* process, the note, the chunk and the number of committed rows that
\* already hold this chunk of this note (NoteNo: a place for every note a
\* database can hold).
FreshId(p, note, idx, rows) ==
    LET copies == Cardinality({r \in rows : r.note_id = note.id /\ r.chunk_index = idx})
        CaseNo == IF note.case_id = "case1" THEN 1 ELSE 2
        NoteNo == (CaseNo - 1) * Len(DayTimes) + TimeRank(note.created_at[2])
        NoteSlots == Cardinality(Cases) * Len(DayTimes)
    IN  ((copies * Cardinality(RunIds) + p - 1) * NoteSlots + NoteNo - 1)
            * MaxChunksPerNote + idx + 1

\* The databases seed_data.py leaves: per case some notes, each later than
\* the one before, short or long (counts[i] is the number of chunks of the
\* i-th note).
NotesOfCase(c, counts) ==
    {[id |-> <<c, DayTimes[i], counts[i]>>, case_id |-> c,
      created_at |-> <<NoteDay, DayTimes[i]>>,
      note_type |-> <<NoteTypes[i]>>,
      caseworker_name |-> <<Caseworkers[IF counts[i] = 1 THEN 1 ELSE 2]>>,
      n_chunks |-> counts[i]] : i \in 1..Len(counts)}

\* A commit after every INSERT.
CommitsAfterEveryInsert(inserted, total) == TRUE

\* embed_notes.py 104-127: conn.commit() follows the loop over the chunks of
\* a note.
CommitsAfterInsert(inserted, total) == inserted = total

\* embed_notes.py 152: the loop goes on while chunks remain.
AfterBatch(remaining) == IF remaining = {} THEN "idle" ELSE "embedding"

\* embed_notes.py 74-87.
RunStart(p) ==
    /\ runs[p].pc = "idle"
    /\ runs' = [runs EXCEPT ![p] =
                   [@ EXCEPT !.pc = "chunking",
                             !.pending_notes = PendingNotes(case_notes, note_chunks),
                             !.cur = <<>>, !.inserted = 0, !.tx = {},
                             !.pending_chunks = {},
                             !.outcome = "running",
                             !.rerun = \E q \in RunIds : runs[q].done_before,
                             !.rolled_back = 0]]
    /\ UNCHANGED dbVars
    /\ UNCHANGED <<chunkVars, chatVars, hf_call>>

\* embed_notes.py 97-127: one INSERT of the loop over the chunks of the next
\* pending note, with the commit that follows the last one.
RunInsertChunk(p) ==
    /\ runs[p].pc = "chunking"
    /\ runs[p].pending_notes # {}
    /\ \E note \in runs[p].pending_notes :
           /\ IF runs[p].cur # <<>> THEN note = runs[p].cur[1]
              ELSE \A o \in runs[p].pending_notes : TimeLE(note.created_at, o.created_at)
           /\ LET chunk == CHOOSE r \in ChunkRows(note, 0) :
                               r.chunk_index = runs[p].inserted
                  row == [chunk EXCEPT
                             !.id = FreshId(p, note, runs[p].inserted, note_chunks)]
                  tx == runs[p].tx \cup {row}
                  n == runs[p].inserted + 1
                  commits == CommitsAfterInsert(n, note.n_chunks)
                  last == n = note.n_chunks
              IN  /\ note_chunks' = IF commits THEN note_chunks \cup tx ELSE note_chunks
                  /\ runs' = [runs EXCEPT ![p] =
                                 [@ EXCEPT !.tx = IF commits THEN {} ELSE tx,
                                           !.cur = IF last THEN <<>> ELSE <<note>>,
                                           !.inserted = IF last THEN 0 ELSE n,
                                           !.pending_notes =
                                               IF last THEN @ \ {note} ELSE @]]
    /\ UNCHANGED <<case_notes, run_pc, pending_notes, pending_chunks, query, results,
                   hf_request>>
    /\ UNCHANGED <<chunkVars, chatVars, hf_call>>

\* embed_notes.py 132-144.
RunSelectChunks(p) ==
    /\ runs[p].pc = "chunking"
    /\ runs[p].pending_notes = {}
    /\ LET ids == {r.id : r \in {x \in note_chunks : x.embedding = NULL}}
       IN  runs' = [runs EXCEPT ![p] =
                       [@ EXCEPT !.pending_chunks = ids,
                                 !.pc = IF ids = {} THEN "idle" ELSE "embedding",
                                 !.outcome = IF ids = {} THEN "completed" ELSE @,
                                 !.done_before = IF ids = {} THEN TRUE ELSE @]]
    /\ UNCHANGED dbVars
    /\ UNCHANGED <<chunkVars, chatVars, hf_call>>

\* embed_notes.py 152-182: one batch.  embed_documents returns the vectors
\* or raises, and the exception ends the process.
RunEmbedBatch(p) ==
    /\ runs[p].pc = "embedding"
    /\ \E asc \in BOOLEAN, outcome \in HfOutcomes :
           LET rows == NextBatch({x \in note_chunks : x.id \in runs[p].pending_chunks}, asc)
               batch == {r.id : r \in rows}
               chunk_texts == {r.chunk_text : r \in rows}
               remaining == runs[p].pending_chunks \ batch
           IN  /\ hf_request' = [caller |-> "embed_documents",
                                 origin |-> "embed_notes",
                                 input |-> chunk_texts,
                                 texts |-> embed_documents(chunk_texts)]
               /\ IF outcome = "ok"
                  THEN /\ note_chunks' =
                              {IF r.id \in batch
                               THEN [r EXCEPT !.embedding =
                                                  <<DocVector(r.note_id, r.chunk_index)>>]
                               ELSE r : r \in note_chunks}
                       /\ runs' = [runs EXCEPT ![p] =
                                      [@ EXCEPT !.pending_chunks = remaining,
                                                !.pc = AfterBatch(remaining),
                                                !.outcome =
                                                    IF AfterBatch(remaining) = "idle"
                                                    THEN "completed" ELSE @,
                                                !.done_before =
                                                    IF AfterBatch(remaining) = "idle"
                                                    THEN TRUE ELSE @]]
                  ELSE /\ UNCHANGED note_chunks
                       /\ runs' = [runs EXCEPT ![p] =
                                      [@ EXCEPT !.pc = "idle",
                                                !.pending_chunks = {},
                                                !.outcome = "crashed",
                                                !.last_crash = "embedding"]]
    /\ UNCHANGED <<case_notes, run_pc, pending_notes, pending_chunks, query, results>>
    /\ UNCHANGED <<chunkVars, chatVars, hf_call>>

\* The process dies (kill, power loss, lost connection): the server rolls its
\* open transaction back.
RunCrash(p) ==
    /\ runs[p].pc # "idle"
    /\ runs' = [runs EXCEPT ![p] =
                   [@ EXCEPT !.pc = "idle", !.pending_notes = {}, !.cur = <<>>,
                             !.inserted = 0, !.tx = {}, !.pending_chunks = {},
                             !.outcome = "crashed",
                             !.rolled_back = Cardinality(runs[p].tx),
                             !.last_crash = runs[p].pc]]
    /\ UNCHANGED dbVars
    /\ UNCHANGED <<chunkVars, chatVars, hf_call>>

\* Runs of one operator, one after the other.
RerunNext ==
    \/ RunStart(1)
    \/ RunInsertChunk(1)
    \/ RunSelectChunks(1)
    \/ RunEmbedBatch(1)
    \/ RunCrash(1)

\* Runs started by several operators or schedulers.
ConcurrentNext ==
    \/ \E p \in RunIds : RunStart(p)
    \/ \E p \in RunIds : RunInsertChunk(p)
    \/ \E p \in RunIds : RunSelectChunks(p)
    \/ \E p \in RunIds : RunEmbedBatch(p)
    \/ \E p \in RunIds : RunCrash(p)

(* ----------------------------- _call_hf_api ---------------------------- *)

\* What the inference API answers: the status, and the body as the code
\* reads it.  A 200 carries one vector per text ([batch, dims]) or one vector
\* per token of each text ([batch, tokens, dims]); a 503 carries the JSON
\* object that reports the model as loading, another JSON value, or a body
\* that is not JSON; the body of any other status is not read.
HfResponses ==
    LET HfBodies(status) ==
            IF status = 200 THEN {"vectors", "token_vectors"}
            ELSE IF status = 503 THEN {"loading", "other_json", "not_json"}
            ELSE {"other_json", "not_json"}
    IN  UNION {{[status |-> st, body |-> b] : b \in HfBodies(st)} : st \in {200, 503, 500}}

\* response.json() raises on a body that is not JSON.
IsJson(b) == b # "not_json"

\* `"loading" in str(error_body).lower()`
MentionsLoading(b) == b = "loading"

\* The vector of the model for a text.
Embedding(t) == <<"vector", t>>

\* response.json() of a 200, per text.
HfJson(texts, b) ==
    IF b = "token_vectors"
    THEN [t \in texts |-> <<Embedding(t), <<"token vector">>>>]
    ELSE [t \in texts |-> Embedding(t)]

\* embedding.py 88-96: a [batch, tokens, dims] result is reduced to the first
\* token vector of each text.
HfResult(texts, b) ==
    LET result == HfJson(texts, b)
    IN  IF b = "token_vectors" THEN [t \in texts |-> result[t][1]] ELSE result

\* embedding.py 70-96: one pass of the loop body on the response received.
AfterResponse(call, resp) ==
    LET posted == [call EXCEPT !.responses = Append(@, resp)]
    IN  IF resp.status = 503 /\ ~IsJson(resp.body)
        THEN [posted EXCEPT !.outcome = "decode_error"]
        ELSE IF resp.status = 503 /\ MentionsLoading(resp.body)
        THEN [posted EXCEPT !.attempt = @ + 1]
        ELSE IF resp.status # 200
        THEN [posted EXCEPT !.outcome = "http_error"]
        ELSE [posted EXCEPT !.outcome = "ok",
                            !.result = HfResult(call.texts, resp.body)]

\* The texts the two callers pass: a prefixed question, or a batch of chunk
\* texts.
HfInit ==
    /\ \E texts \in {embed_query(q) : q \in Questions}
                       \cup {embed_documents(batch) :
                                 batch \in (SUBSET {r.chunk_text : r \in ChatChunks}) \ {{}}} :
           hf_call = [texts |-> texts, attempt |-> 0, responses |-> <<>>,
                      outcome |-> "running", result |-> <<>>]
    /\ ChunkIdle /\ ChatDbInit /\ ChatIdle /\ RunsIdle

\* No call of _call_hf_api is followed step by step.
HfIdle ==
    hf_call = [texts |-> {}, attempt |-> 0, responses |-> <<>>, outcome |-> "none",
               result |-> <<>>]

\* embedding.py 70-96: post the texts and handle the response.
HfPost ==
    /\ hf_call.outcome = "running"
    /\ hf_call.attempt < HF_ATTEMPTS
    /\ \E resp \in HfResponses : hf_call' = AfterResponse(hf_call, resp)
    /\ UNCHANGED <<chunkVars, dbVars, chatVars, runs>>

\* embedding.py 98: the loop ended without a return.
HfGiveUp ==
    /\ hf_call.outcome = "running"
    /\ hf_call.attempt = HF_ATTEMPTS
    /\ hf_call' = [hf_call EXCEPT !.outcome = "still_loading"]
    /\ UNCHANGED <<chunkVars, dbVars, chatVars, runs>>

HfNext == HfPost \/ HfGiveUp

(* ---------------------------- specifications --------------------------- *)

\* chunk_text on every text and parameter triple of the bounds.
Init == ChunkInit /\ DbInit /\ ChatIdle /\ HfIdle /\ RunsIdle

Next ==
    \/ ReturnNoSentences
    \/ ReturnShortText
    \/ EnterLoop
    \/ BuildChunk
    \/ SelectOverlap

Spec == Init /\ [][Next]_vars

\* seed_data.py, embed_notes.py and chat's find_similar_chunks on one database.
SearchInit == ChunkIdle /\ DbInit /\ ChatIdle /\ HfIdle /\ RunsIdle

SearchSpec == SearchInit /\ [][SearchNext]_vars

\* The sequential caller runs every enabled step of chunk_text.
FairSpec == Spec /\ WF_vars(Next)

\* chunk_text(note_text) as embed_notes.py calls it: default parameters.
DocumentInit ==
    /\ text \in Documents
    /\ max_chars = DEFAULT_MAX_CHARS
    /\ min_overlap_chars = DEFAULT_MIN_OVERLAP_CHARS
    /\ max_overlap_chars = DEFAULT_MAX_OVERLAP_CHARS
    /\ sentences = <<>>
    /\ chunks = <<>>
    /\ chunk_start_idx = 0
    /\ j = 0
    /\ chunk_spans = <<>>
    /\ pc = "start"
    /\ DbInit /\ ChatIdle /\ HfIdle /\ RunsIdle

\* chunk_text with its default parameters on documents of about 3000
\* characters.
DocumentSpec == DocumentInit /\ [][Next]_vars

\* One call of _call_hf_api against every sequence of responses.
HfSpec == HfInit /\ [][HfNext]_vars

\* The database after seed_data.py, before the first run of embed_notes.py.
SeededInit(databases) ==
    /\ case_notes \in databases
    /\ note_chunks = {}
    /\ run_pc = "idle"
    /\ pending_notes = {}
    /\ pending_chunks = {}
    /\ query = NoQuery
    /\ results = <<>>
    /\ hf_request = NoHfRequest
    /\ ChunkIdle /\ ChatIdle /\ HfIdle /\ RunsIdle

\* Two cases with a note at every time of the day.
RerunInit ==
    SeededInit({NotesOfCase("case1", c1) \cup NotesOfCase("case2", c2) :
                    c1 \in [1..Len(DayTimes) -> ChunkCounts],
                    c2 \in [1..Len(DayTimes) -> ChunkCounts]})

\* One case with one note.
ConcurrentInit ==
    SeededInit({NotesOfCase("case1", c1) : c1 \in [1..1 -> ChunkCounts]})

\* Runs of embed_notes.py one after the other, crashes included.
RerunSpec == RerunInit /\ [][RerunNext]_vars

\* Runs of embed_notes.py that overlap in time.
ConcurrentSpec == ConcurrentInit /\ [][ConcurrentNext]_vars

\* Chat requests of one session, one after the other, and runs of
\* embed_notes.py on the same database.
ChatSpecInit == ChunkIdle /\ ChatDbInit /\ ChatInit /\ HfIdle /\ RunsIdle

ChatSpec == ChatSpecInit /\ [][ChatNext]_vars

(* ------------------------ derived quantities --------------------------- *)

\* `min_overlap_chars < max_overlap_chars < max_chars`
ValidParams ==
    min_overlap_chars < max_overlap_chars /\ max_overlap_chars < max_chars

NumChunks == Len(chunk_spans)
SpanStart(i) == chunk_spans[i][1]
SpanEnd(i) == chunk_spans[i][2]

\* Characters of the sentences shared by chunk i and chunk i + 1, joined.
OverlapChars(i) == Len(Join(Slice(sentences, SpanStart(i + 1), SpanEnd(i))))

\* Chunk i is one sentence that alone exceeds max_chars.
SingleOversized(i) ==
    SpanEnd(i) - SpanStart(i) = 1 /\ Len(sentences[SpanStart(i) + 1]) > max_chars

\* Characters of the input not yet in any chunk once chunk i is built.
RemainingChars(i) == Len(Join(Slice(sentences, SpanEnd(i), Len(sentences))))

\* What prepending the sentence before the shared span would add to it.
PrependCost(i) ==
    Len(sentences[SpanStart(i + 1)])
        + (IF SpanStart(i + 1) < SpanEnd(i) THEN 1 ELSE 0)

\* The sentences of chunk i beyond those inherited from chunk i - 1.
NewPart(i) ==
    LET held == sent_tokenize(chunks[i])
        inherited == IF i = 1 THEN 0 ELSE SpanEnd(i - 1) - SpanStart(i)
    IN  SubSeq(held, inherited + 1, Len(held))

RECURSIVE NewPartsFrom(_)
NewPartsFrom(i) ==
    IF i > Len(chunks) THEN <<>> ELSE NewPart(i) \o NewPartsFrom(i + 1)

\* The chunks whose span holds sentence k (0-based).
ChunksHolding(k) ==
    {i \in 1..NumChunks : SpanStart(i) <= k /\ k < SpanEnd(i)}

\* The number of history turns in the generator's input, and the position in
\* the loaded messages just before the first of them.
HistoryLen == Len(contents) - 1
HistoryOffset == Len(session_messages) - HistoryLen

\* The text of the last turn of the generator's input.
FinalTurnText == contents[Len(contents)].parts[1]

\* How often the query prefix occurs in a text.
PrefixCount(t) == Cardinality({i \in 1..Len(t) : t[i] = BGE_QUERY_PREFIX})

\* The stored messages come in pairs: a user message directly followed by an
\* assistant message of the same transaction.
PairsComplete(msgs) ==
    /\ Len(msgs) % 2 = 0
    /\ \A k \in 1..Len(msgs) :
           k % 2 = 1 =>
               /\ msgs[k].role = "user"
               /\ msgs[k + 1].role = "assistant"
               /\ msgs[k].created_at = msgs[k + 1].created_at

\* A citation label written from the date, the type and the caseworker alone.
LabelOf(day, note_type, caseworker_name) ==
    <<"[", ToString(day), ", ",
      IF note_type = NULL \/ note_type = <<"">> THEN "unknown" ELSE note_type[1], ", ",
      IF caseworker_name = NULL \/ caseworker_name = <<"">>
      THEN "unknown caseworker" ELSE caseworker_name[1],
      "]">>

(* ------------------------------- claims -------------------------------- *)

\* C1: a chunk that holds two or more sentences is at most max_chars long; a
\* chunk longer than max_chars is exactly one sentence, itself longer than
\* max_chars.
C1_ChunkBound ==
    \A k \in 1..Len(chunks) :
        LET held == sent_tokenize(chunks[k])
        IN  /\ Len(held) >= 2 => Len(chunks[k]) <= max_chars
            /\ Len(chunks[k]) > max_chars =>
                   /\ Len(held) = 1
                   /\ held[1] = chunks[k]
                   /\ Len(held[1]) > max_chars

C1_Witness ==
    /\ pc = "done"
    /\ Len(chunks) >= 2
    /\ \E k \in 1..Len(chunks) :
           Len(sent_tokenize(chunks[k])) >= 2 /\ Len(chunks[k]) = max_chars

\* C2: the returned chunks are whole-sentence contiguous ranges that start at
\* sentence 0, leave no gap, end at the last sentence, and whose parts beyond
\* the inherited overlap give back every sentence once, in order.
C2_Reconstruction ==
    (pc = "done" /\ sentences # <<>>) =>
        /\ Len(chunks) = NumChunks
        /\ NumChunks >= 1
        /\ SpanStart(1) = 0
        /\ SpanEnd(NumChunks) = Len(sentences)
        /\ \A i \in 1..NumChunks :
               /\ SpanStart(i) < SpanEnd(i)
               /\ sent_tokenize(chunks[i]) = Slice(sentences, SpanStart(i), SpanEnd(i))
        /\ \A i \in 1..(NumChunks - 1) :
               /\ SpanStart(i + 1) <= SpanEnd(i)
               /\ SpanEnd(i) <= SpanEnd(i + 1)
        /\ NewPartsFrom(1) = sentences

C2_Witness ==
    /\ pc = "done"
    /\ NumChunks >= 3
    /\ \E i \in 1..(NumChunks - 1) : SpanStart(i + 1) < SpanEnd(i)
    /\ NewPartsFrom(1) = sentences

C4_OverlapCap ==
    \A i \in 1..(NumChunks - 1) : OverlapChars(i) <= max_overlap_chars

\* Floor not reached and the cursor forced forward, with a shared span left.
C4_Witness ==
    /\ pc = "done"
    /\ \E i \in 1..(NumChunks - 1) :
           /\ SpanStart(i + 1) = SpanStart(i) + 1
           /\ 0 < OverlapChars(i)
           /\ OverlapChars(i) < min_overlap_chars
           /\ OverlapChars(i) + PrependCost(i) <= max_overlap_chars

\* C5: every chunk find_similar_chunks returns belongs to the requested case,
\* was created between start_date and 23:59:59 of end_date inclusive, and
\* had an embedding when the query ran.
C5_RetrievalScope ==
    \A i \in 1..Len(results) :
        \E r \in note_chunks :
            /\ r.id = results[i].chunk_id
            /\ r.case_id = query.case_id
            /\ TimeLE(<<query.start_date, "00:00:00">>, r.created_at)
            /\ TimeLE(r.created_at, <<query.end_date, "23:59:59">>)
            /\ r.embedding # NULL

\* A query that returns the chunk created at 23:59:59 of end_date while the
\* table also holds a chunk of another case inside the window and an embedded
\* chunk of the case created after 23:59:59 of end_date.
C5_Witness ==
    /\ query # NoQuery
    /\ \E i \in 1..Len(results) : results[i].created_at = <<query.end_date, "23:59:59">>
    /\ \E r \in note_chunks :
           /\ r.case_id # query.case_id
           /\ r.created_at = <<query.end_date, "00:00:00">>
    /\ \E r \in note_chunks :
           /\ r.case_id = query.case_id
           /\ r.embedding # NULL
           /\ r.created_at = <<query.end_date, "23:59:59.5">>

\* C6: every overlap selection moves the start cursor strictly forward, by
\* exactly one sentence when the walk reached the chunk's own start; never
\* more chunks than sentences; and chunk_text reaches its return.
C6_Terminates ==
    /\ [][ /\ pc = "overlap" =>
                /\ chunk_start_idx' > chunk_start_idx
                /\ chunk_start_idx' <= j
                /\ WalkBack(sentences, chunk_start_idx, j, j, 0,
                            min_overlap_chars, max_overlap_chars) <= chunk_start_idx
                       => chunk_start_idx' = chunk_start_idx + 1
           /\ Len(chunks') <= Len(sentences')
         ]_vars
    /\ <>(pc = "done")

C6_Witness ==
    /\ pc = "done"
    /\ Len(chunks) = Len(sentences)
    /\ Len(chunks) >= 3

C8_ShortTextVerbatim ==
    (pc = "done" /\ sent_tokenize(text) # <<>> /\ Len(text) <= max_chars) =>
        chunks = <<text>>

C8_Witness ==
    /\ pc = "done"
    /\ Len(sentences) >= 2
    /\ Len(text) <= max_chars
    /\ text # Join(sentences)
    /\ chunks = <<text>>

\* C9 as stated: with parameters that violate
\* min_overlap_chars < max_overlap_chars < max_chars no chunk is produced.
C9_InvalidParamsRejected ==
    ~ValidParams => chunks = <<>>

\* C10: when the segmenter finds no sentence, chunk_text returns no chunk.
C10_NoSentencesNoChunks ==
    (pc = "done" /\ sent_tokenize(text) = <<>>) => chunks = <<>>

C10_Witness ==
    /\ pc = "done"
    /\ sent_tokenize(text) = <<>>
    /\ text # <<>>
    /\ chunks = <<>>

\* C11 as stated: a call of find_similar_chunks returns exactly
\* min(TOP_K, number of chunks that pass the scope filters) results, and their
\* similarity values never increase from one result to the next.
C11_RetrievalSize ==
    [][ (query = NoQuery /\ query' # NoQuery) =>
            /\ Len(results') =
                   Min(TOP_K, Cardinality({r \in note_chunks : InScope(r, query')}))
            /\ \A i \in 1..(Len(results') - 1) :
                   results'[i].similarity >= results'[i + 1].similarity
      ]_vars

\* C20: every chunk row carries the case_id, created_at, caseworker_name and
\* note_type of its parent note, and the parent note of every chunk a query
\* returns belongs to the requested case and was created inside the window.
C20_Denormalised ==
    /\ \A r \in note_chunks :
           \E n \in case_notes :
               /\ n.id = r.note_id
               /\ r.case_id = n.case_id
               /\ r.created_at = n.created_at
               /\ r.caseworker_name = n.caseworker_name
               /\ r.note_type = n.note_type
    /\ \A i \in 1..Len(results) :
           \E n \in case_notes :
               /\ n.id = results[i].note_id
               /\ n.case_id = query.case_id
               /\ TimeLE(StartOfDay(query.start_date), n.created_at)
               /\ TimeLE(n.created_at, EndOfDay(query.end_date))

\* A query answered from the chunks of one note while the case has a second
\* note, of another type and caseworker, created after the window, and the
\* other case has chunks too.
C20_Witness ==
    /\ query # NoQuery
    /\ Len(results) >= 2
    /\ \E r \in note_chunks :
           /\ r.case_id = query.case_id
           /\ r.embedding # NULL
           /\ ~TimeLE(r.created_at, EndOfDay(query.end_date))
           /\ r.note_type # results[1].note_type
           /\ r.caseworker_name # results[1].caseworker_name
    /\ \E r \in note_chunks : r.case_id # query.case_id /\ r.embedding # NULL

\* C12: the generator receives at most 2 * MAX_HISTORY_TURNS prior messages,
\* namely the last min(2 * MAX_HISTORY_TURNS, len) of prior_messages in their
\* order; every message left out is older than every message kept.
C12_HistoryTruncation ==
    generator_calls > 0 =>
        /\ HistoryLen <= 2 * MAX_HISTORY_TURNS
        /\ HistoryLen = Min(2 * MAX_HISTORY_TURNS, Len(session_messages))
        /\ \A i \in 1..HistoryLen :
               /\ contents[i].parts = <<session_messages[HistoryOffset + i].content>>
               /\ contents[i].role =
                      (IF session_messages[HistoryOffset + i].role = "assistant"
                       THEN "model" ELSE "user")
        /\ \A d \in 1..HistoryOffset : \A i \in 1..HistoryLen :
               session_messages[d].created_at
                   < session_messages[HistoryOffset + i].created_at

\* More than 2 * MAX_HISTORY_TURNS stored messages, the oldest pair left out.
C12_Witness ==
    /\ generator_calls > 0
    /\ Len(session_messages) = 2 * MAX_HISTORY_TURNS + 2
    /\ HistoryLen = 2 * MAX_HISTORY_TURNS
    /\ session_messages[1].content # session_messages[3].content
    /\ contents[1].parts = <<session_messages[3].content>>

C14_NoExcerpts ==
    /\ failure = "search" => query.dim # EMBEDDING_DIM
    /\ (generator_calls > 0 /\ results = <<>>) =>
           /\ FinalTurnText = <<NO_EXCERPTS_MARKER, QUESTION_LABEL>> \o body.message
           /\ generator_calls = 1
           /\ response.status = "ok" => response.sources = <<>>
           /\ (chat_pc = "idle" /\ failure = "none") =>
                  /\ response.status = "ok"
                  /\ response.answer = Answer

\* An answered request on a case whose only chunk has no embedding yet.
C14_Witness ==
    /\ chat_pc = "idle"
    /\ response.status = "ok"
    /\ response.sources = <<>>
    /\ results = <<>>
    /\ query.dim = EMBEDDING_DIM
    /\ \E r \in note_chunks : r.case_id = query.case_id /\ r.embedding = NULL

\* C15: a request in which a call failed returns an error and no answer and
\* stores nothing; an answered request has stored its user and its assistant
\* message; the stored messages always come in complete pairs.
C15_AllOrNothing ==
    /\ failure # "none" =>
           /\ db_new = <<>>
           /\ response.status \in {"none", "error"}
           /\ response.answer = <<>>
           /\ Len(chat_messages) = Len(session_messages)
    /\ (chat_pc = "idle" /\ failure # "none") => response.status = "error"
    /\ (chat_pc = "idle" /\ response.status = "ok") =>
           /\ Len(chat_messages) = Len(session_messages) + 2
           /\ chat_messages[Len(chat_messages) - 1].role = "user"
           /\ chat_messages[Len(chat_messages) - 1].content = body.message
           /\ chat_messages[Len(chat_messages)].role = "assistant"
           /\ chat_messages[Len(chat_messages)].content = response.answer
    /\ PairsComplete(chat_messages)

\* A failed embedding call after an answered request of the same run.
C15_Witness ==
    /\ chat_pc = "idle"
    /\ failure = "embedding"
    /\ response.status = "error"
    /\ requests = 2
    /\ Len(chat_messages) \in {2, 2 * MAX_HISTORY_TURNS, 2 * MAX_HISTORY_TURNS + 2}

\* C16: the generator is called at most once in a request; after a failed
\* call the request only rolls back and reports the error.
C16_GeneratorOnce ==
    /\ generator_calls <= 1
    /\ failure = "generator" =>
           /\ generator_calls = 1
           /\ chat_pc \in {"failed", "idle"}
    /\ (failure = "generator" /\ chat_pc = "idle") => response.status = "error"

C16_Witness ==
    /\ failure = "generator"
    /\ chat_pc = "idle"
    /\ response.status = "error"
    /\ generator_calls = 1
    /\ results # <<>>

\* C17: the texts of a call made for a user question are the question with
\* the query prefix in front, once; the texts of a call made for chunks are
\* the stored chunk texts without the prefix; chat calls embed_query only and
\* embed_notes calls embed_documents only.
C17_PrefixOnlyOnQueries ==
    /\ hf_request.origin = "chat" <=> hf_request.caller = "embed_query"
    /\ hf_request.origin = "embed_notes" <=> hf_request.caller = "embed_documents"
    /\ hf_request.origin = "chat" =>
           /\ hf_request.texts = {<<BGE_QUERY_PREFIX>> \o q : q \in hf_request.input}
           /\ \A t \in hf_request.texts : t[1] = BGE_QUERY_PREFIX /\ PrefixCount(t) = 1
    /\ hf_request.origin = "embed_notes" =>
           /\ hf_request.texts = hf_request.input
           /\ \A t \in hf_request.texts :
                  /\ PrefixCount(t) = 0
                  /\ \E r \in note_chunks : r.chunk_text = t

\* A batch of chunk texts sent while a chat request that has embedded its
\* question is waiting for its search.
C17_Witness ==
    /\ hf_request.caller = "embed_documents"
    /\ hf_request.texts # {}
    /\ chat_pc = "search"
    /\ query # NoQuery

\* C18 as stated: find_similar_chunks returns no result sequence for a query
\* vector whose length is not EMBEDDING_DIM.
C18_DimensionMismatchFails ==
    chat_pc \in {"generate", "commit"} => query.dim = EMBEDDING_DIM

C21_AppendOnly ==
    [][ /\ Len(chat_messages') >= Len(chat_messages)
        /\ SubSeq(chat_messages', 1, Len(chat_messages)) = chat_messages
        /\ chat_messages' # chat_messages =>
               /\ chat_pc = "commit"
               /\ response.status = "ok"
        /\ (chat_pc = "commit" /\ chat_pc' = "idle") =>
               /\ Len(chat_messages') = Len(chat_messages) + 2
               /\ chat_messages'[Len(chat_messages) + 1].role = "user"
               /\ chat_messages'[Len(chat_messages) + 1].content = body.message
               /\ chat_messages'[Len(chat_messages) + 2].role = "assistant"
               /\ chat_messages'[Len(chat_messages) + 2].content = response.answer
      ]_vars

\* A request whose prompt history was truncated has committed: all the
\* messages it loaded and its own two are stored.
C21_Witness ==
    /\ chat_pc = "idle"
    /\ response.status = "ok"
    /\ Len(session_messages) > 2 * MAX_HISTORY_TURNS
    /\ HistoryLen = 2 * MAX_HISTORY_TURNS
    /\ Len(chat_messages) = Len(session_messages) + 2
    /\ PriorMessages(SubSeq(chat_messages, 1, Len(session_messages)))
           = PriorMessages(LoadMessages(SubSeq(chat_messages, 1, Len(session_messages)), FALSE))

\* C22: a call of generate_answer leaves its arguments as they were (the
\* prior messages, the retrieved chunks and the question), and the prompt it
\* sends is the one written from these three arguments alone, whatever the
\* call before it sent.
C22_PureAssembly ==
    [][ generator_calls' = generator_calls + 1 =>
            /\ session_messages' = session_messages
            /\ results' = results
            /\ body' = body
            /\ contents' =
                   History(PriorMessages(session_messages))
                       \o <<[role |-> "user",
                             parts |-> <<ContextBlock(results)
                                             \o <<QUESTION_LABEL>> \o body.message>>]>>
      ]_vars

\* The second call of a run: the first request was answered and stored its
\* two messages, the second retrieved nothing.
C22_Witness ==
    /\ requests = 2
    /\ generator_calls = 1
    /\ Len(session_messages) = 2
    /\ results = <<>>
    /\ FinalTurnText = <<NO_EXCERPTS_MARKER, QUESTION_LABEL>> \o body.message
    /\ Len(contents) = 3

\* C23: with max_chars 1200, min_overlap_chars 200 and max_overlap_chars 400,
\* the document of 59 sentences of 50 characters (3008 characters) gives
\* exactly 3 chunks, and the second chunk starts with the last 4 to 8
\* sentences of the first, 200 to 400 characters of them.
C23_Example ==
    ( /\ pc = "done"
      /\ max_chars = 1200 /\ min_overlap_chars = 200 /\ max_overlap_chars = 400
      /\ Len(text) = 3008
      /\ Len(sentences) = 59
      /\ \A k \in 1..Len(sentences) : Len(sentences[k]) = 50 ) =>
        /\ Len(chunks) = 3
        /\ LET first == sent_tokenize(chunks[1])
               second == sent_tokenize(chunks[2])
               shared == SpanEnd(1) - SpanStart(2)
           IN  /\ shared \in 4..8
               /\ Len(Join(SubSeq(second, 1, shared))) \in 200..400
               /\ SubSeq(second, 1, shared)
                      = SubSeq(first, Len(first) - shared + 1, Len(first))
               /\ second[shared + 1] = sentences[SpanEnd(1) + 1]

C23_Witness ==
    /\ pc = "done"
    /\ Len(text) = 3008
    /\ Len(sentences) = 59
    /\ \A k \in 1..Len(sentences) : Len(sentences[k]) = 50
    /\ Len(chunks) = 3
    /\ SpanEnd(1) = 23
    /\ SpanStart(2) = 19
    /\ Len(chunks[1]) = 1172

\* C27 as stated: every chunk after the first ends at a later sentence than
\* the chunk before it, so it holds a sentence no earlier chunk holds.
C27_NewSentencePerChunk ==
    \A i \in 2..NumChunks : SpanEnd(i) > SpanEnd(i - 1)

\* C28 as stated: the messages a request loads come in the order they
\* happened, the user message of every earlier request directly before the
\* assistant reply of that request, and so do the turns passed to the
\* generator: user, model, user, model.
C28_TurnsInOrder ==
    /\ \A k \in 1..Len(session_messages) :
           k % 2 = 1 =>
               /\ session_messages[k].role = "user"
               /\ session_messages[k + 1].role = "assistant"
               /\ session_messages[k].created_at = session_messages[k + 1].created_at
    /\ generator_calls > 0 =>
           \A i \in 1..HistoryLen :
               contents[i].role = (IF i % 2 = 1 THEN "user" ELSE "model")

\* The response reports the model as loading.
LoadingResponse(r) == r.status = 503 /\ MentionsLoading(r.body)

\* C26 as stated: one call sends at most 3 requests; every request but the
\* last was answered by a 503 that mentions loading; the call returns the
\* embeddings of the first 200; any other failure status raises the HTTP
\* error at once; and RuntimeError is raised exactly when all 3 attempts were
\* answered by the loading response.
C26_RetryPolicy ==
    LET rs == hf_call.responses
        n == Len(rs)
    IN  /\ n <= 3
        /\ \A i \in 1..(n - 1) : LoadingResponse(rs[i])
        /\ hf_call.outcome = "ok" =>
               /\ rs[n].status = 200
               /\ hf_call.result = [t \in hf_call.texts |-> Embedding(t)]
        /\ (n >= 1 /\ rs[n].status = 200) => hf_call.outcome = "ok"
        /\ (n >= 1 /\ rs[n].status # 200 /\ ~LoadingResponse(rs[n])) =>
               hf_call.outcome = "http_error"
        /\ hf_call.outcome = "still_loading" =>
               n = 3 /\ \A i \in 1..n : LoadingResponse(rs[i])
        /\ (n = 3 /\ \A i \in 1..n : LoadingResponse(rs[i])) =>
               hf_call.outcome \in {"running", "still_loading"}

\* The chunk rows of a note in the committed table.
RowsOf(note) == {r \in note_chunks : r.note_id = note.id}

\* C24: a run that starts after a run has completed inserts no chunk row and
\* changes no embedding: none of its steps changes the table note_chunks.
C24_RerunIdempotent ==
    [][ (\E p \in RunIds : runs[p].rerun /\ runs[p].pc # "idle") =>
            note_chunks' = note_chunks
      ]_vars

\* A second run has completed on a database whose chunks needed more than
\* one batch.
C24_Witness ==
    /\ runs[1].rerun
    /\ runs[1].outcome = "completed"
    /\ runs[1].pc = "idle"
    /\ Cardinality(note_chunks) > EMBED_BATCH_SIZE
    /\ \A n \in case_notes : RowsOf(n) # {}

\* C25: no step, a crash included, removes or alters a committed chunk row
\* other than by setting its embedding; chunk rows are inserted only for
\* notes that had none; and when a run has completed without error every
\* note is chunked and no chunk row has a NULL embedding.
C25_CrashRecovery ==
    /\ [][ /\ \A r \in note_chunks :
                  \E n \in note_chunks' :
                      /\ [n EXCEPT !.embedding = NULL] = [r EXCEPT !.embedding = NULL]
                      /\ r.embedding # NULL => n.embedding = r.embedding
           /\ \A n \in note_chunks' :
                  (~\E r \in note_chunks : r.id = n.id) =>
                      ~\E r \in note_chunks : r.note_id = n.note_id
         ]_vars
    /\ [](\A p \in RunIds :
              (runs[p].outcome = "completed" /\ runs[p].pc = "idle") =>
                  /\ \A r \in note_chunks : r.embedding # NULL
                  /\ \A n \in case_notes : RowsOf(n) # {})

\* The first run to complete, after a crash in the embedding pass that left
\* the first batch embedded.
C25_Witness ==
    /\ runs[1].last_crash = "embedding"
    /\ runs[1].outcome = "completed"
    /\ ~runs[1].rerun
    /\ Cardinality(note_chunks) > EMBED_BATCH_SIZE
    /\ \A r \in note_chunks : r.embedding # NULL

\* C29: in the committed table every note has no chunk row or all of them:
\* one row for each chunk of chunk_text, with chunk_index 0..k-1 in the order
\* of the chunks.
C29_WholeNotes ==
    \A n \in case_notes :
        \/ RowsOf(n) = {}
        \/ /\ Cardinality(RowsOf(n)) = n.n_chunks
           /\ \A idx \in 0..(n.n_chunks - 1) :
                  \E r \in RowsOf(n) :
                      r.chunk_index = idx /\ r.chunk_text = ChunkTextOf(n, idx)

\* A crash between two INSERTs of a long note, after another note was
\* committed: the rows of the open transaction are gone.
C29_Witness ==
    /\ runs[1].outcome = "crashed"
    /\ runs[1].last_crash = "chunking"
    /\ runs[1].rolled_back >= 2
    /\ \E n \in case_notes : RowsOf(n) = {} /\ n.n_chunks = MaxChunksPerNote
    /\ \E n \in case_notes : Cardinality(RowsOf(n)) = MaxChunksPerNote

\* C30 as stated: whatever the interleaving of the runs, no two chunk rows
\* have the same note_id and chunk_index.
C30_ChunkedOnce ==
    \A r1, r2 \in note_chunks :
        (r1.note_id = r2.note_id /\ r1.chunk_index = r2.chunk_index) => r1 = r2

=============================================================================
